---------------------------- MODULE Spec2Model ----------------------------
(***************************************************************************)
(* Verification model of the affiliate API:                                *)
(*   - the lead POST handler of app/api/agora/route.ts (src/unnamed/       *)
(*     part_000): delay, unconditional return, and the validate-and-relay  *)
(*     body that follows the return;                                       *)
(*   - the token codec: encrypt / POST of src/unnamed/part_001 and the two *)
(*     redirect GET handlers (src/src/app/redirect/route.ts, compact JWE;  *)
(*     src/unnamed/part_002, iv:ciphertext).                               *)
(* Strings are sequences: JSON string values of the lead form are          *)
(* sequences of one-character strings, codec strings are sequences of      *)
(* UTF-16 code units / bytes (integers).                                   *)
(***************************************************************************)
EXTENDS Integers, Sequences, FiniteSets, TLC

VARIABLES
    \* ---- lead POST handler (part_000) ----
    raw,          \* the request body as sent by the caller
    upstreamEnv,  \* what the upstream API does with a forwarded submission
    pc,           \* position of the handler
    delayMs,      \* duration of the setTimeout that was awaited (0: none yet)
    bodyRead,     \* req.json() has been called
    validated,    \* "no" | "passed" | "failed": AgoraLeadSchema.parse was run
    payload,      \* local `payload` once built (Undefined before)
    outbound,     \* sequence of JSON bodies POSTed upstream by fetch
    upstream,     \* local `upstream` (parsed upstream body)
    response,     \* the NextResponse returned (NoResponse before)
    nResponses,   \* number of responses returned for the request
    \* ---- token codec (part_001, redirect/route.ts, part_002) ----
    encKey,       \* process.env.ENCRYPTION_KEY
    issued,       \* result of the last encrypt() call and of the POST wrapping it
    greq,         \* the GET request: handler variant and query string
    gpc,          \* position of the GET handler
    token,        \* local `token` of GET (Null when searchParams.get gave null)
    decryptCalls, \* number of calls of decrypt()
    gresp         \* the GET handler's response

leadVars == <<raw, upstreamEnv, pc, delayMs, bodyRead, validated, payload,
              outbound, upstream, response, nResponses>>
codecVars == <<encKey, issued, greq, gpc, token, decryptCalls, gresp>>
vars == <<leadVars, codecVars>>

-----------------------------------------------------------------------------
(***************************************************************************)
(* JSON values.  An object is a function from its keys to values; a key    *)
(* that is not in the domain reads as undefined.                           *)
(***************************************************************************)
Str(s) == [t |-> "string", v |-> s]
\* A number is kept as twice its value so that halves are representable.
Num(n) == [t |-> "number", v2 |-> 2 * n]
Half(n2) == [t |-> "number", v2 |-> n2]
Null == [t |-> "null"]
Undefined == [t |-> "undefined"]
Obj(f) == [t |-> "object", f |-> f]

Get(o, k) == IF o.t = "object" /\ k \in DOMAIN o.f THEN o.f[k] ELSE Undefined
IsString(v) == v.t = "string"
IsNumber(v) == v.t = "number"
IsInteger(v) == v.t = "number" /\ v.v2 % 2 = 0

\* object with key k removed / set
Without(f, k) == [x \in (DOMAIN f) \ {k} |-> f[x]]
With(f, k, v) == [x \in (DOMAIN f) \cup {k} |-> IF x = k THEN v ELSE f[x]]


-----------------------------------------------------------------------------
(***************************************************************************)
(* AgoraLeadSchema (part_000 lines 11-100).  A field descriptor records    *)
(* the zod type of the field and its checks.                               *)
(***************************************************************************)
ZBase == [k |-> "string", len |-> -1, min |-> -1, fmt |-> "none",
          bounded |-> FALSE, lo |-> 0, hi |-> 0, enum |-> {},
          optional |-> FALSE, nullable |-> FALSE]
ZString == ZBase
ZStringLength(n) == [ZBase EXCEPT !.len = n]
ZStringMin(n) == [ZBase EXCEPT !.min = n]
ZStringEmail == [ZBase EXCEPT !.fmt = "email"]
ZStringDate == [ZBase EXCEPT !.fmt = "date"]
ZInt == [ZBase EXCEPT !.k = "int"]
ZIntRange(a, b) == [ZBase EXCEPT !.k = "int", !.bounded = TRUE, !.lo = a, !.hi = b]
ZEnum(S) == [ZBase EXCEPT !.k = "enum", !.enum = S]
ZStrOrNum == [ZBase EXCEPT !.k = "union"]
Optional(d) == [d EXCEPT !.optional = TRUE]
Nullable(d) == [d EXCEPT !.nullable = TRUE]

own == <<"o", "w", "n">>
rent == <<"r", "e", "n", "t">>
other == <<"o", "t", "h", "e", "r">>
employment == <<"e", "m", "p", "l", "o", "y", "m", "e", "n", "t">>
socialSecurity == <<"s", "o", "c", "i", "a", "l", "S", "e", "c", "u", "r", "i", "t", "y">>
disability == <<"d", "i", "s", "a", "b", "i", "l", "i", "t", "y">>
retirement == <<"r", "e", "t", "i", "r", "e", "m", "e", "n", "t">>
unemployment == <<"u", "n", "e", "m", "p", "l", "o", "y", "m", "e", "n", "t">>
checking == <<"c", "h", "e", "c", "k", "i", "n", "g">>
savings == <<"s", "a", "v", "i", "n", "g", "s">>
paper == <<"p", "a", "p", "e", "r">>
weekly == <<"w", "e", "e", "k", "l", "y">>
biWeekly == <<"b", "i", "W", "e", "e", "k", "l", "y">>
semiMonthly == <<"s", "e", "m", "i", "M", "o", "n", "t", "h", "l", "y">>
monthly == <<"m", "o", "n", "t", "h", "l", "y">>

RequiredShape ==
    [campaignID |-> ZInt,
     ipAddress |-> ZString,
     sourceURL |-> ZString,
     firstName |-> ZString,
     lastName |-> ZString,
     streetAddress |-> ZString,
     city |-> ZString,
     state |-> ZStringLength(2),
     zipCode |-> ZStringMin(5),
     homePhone |-> ZStringMin(10),
     workPhone |-> ZStringMin(10),
     mobilePhone |-> ZStringMin(10),
     email |-> ZStringEmail,
     dateOfBirth |-> ZStringDate,
     ssn |-> ZStringLength(9),
     ownRent |-> ZEnum({own, rent, other}),
     yearsAtResidence |-> ZIntRange(0, 127),
     monthsAtResidence |-> ZIntRange(0, 11),
     incomeSource |-> ZEnum({employment, socialSecurity, disability,
                             retirement, unemployment, other}),
     employer |-> ZString,
     yearsAtEmployer |-> ZIntRange(0, 127),
     monthsAtEmployer |-> ZIntRange(0, 11),
     monthlyIncome |-> ZStrOrNum,
     loanAmount |-> ZStrOrNum,
     payMethod |-> ZEnum({checking, savings, paper, other}),
     payPeriod |-> ZEnum({weekly, biWeekly, semiMonthly, monthly}),
     firstPayDate |-> ZStringDate,
     secondPayDate |-> ZStringDate,
     bankName |-> ZString,
     bankAccountType |-> ZEnum({checking, savings}),
     bankRoutingNumber |-> ZString,
     bankAccountNumber |-> ZString,
     activeMilitary |-> ZStrOrNum,
     minPrice |-> ZStrOrNum]

OptionalShape ==
    [gender |-> Optional(ZEnum({<<"m">>, <<"f">>})),
     streetAddress2 |-> Nullable(Optional(ZString)),
     workPhoneExt |-> Optional(ZString),
     citizen |-> Optional(ZStrOrNum),
     licenseNumber |-> Optional(ZString),
     licenseState |-> Optional(ZStringLength(2)),
     title |-> Optional(ZString),
     employerAddress |-> Optional(ZString),
     employerCity |-> Optional(ZString),
     employerState |-> Optional(ZStringLength(2)),
     employerZip |-> Optional(ZStrOrNum),
     bankPhone |-> Optional(ZString),
     referencePrimaryName |-> Optional(ZString),
     referencePrimaryPhone |-> Optional(ZString),
     referencePrimaryRelation |-> Optional(ZString),
     referenceSecondaryName |-> Optional(ZString),
     referenceSecondaryPhone |-> Optional(ZString),
     referenceSecondaryRelation |-> Optional(ZString),
     optin |-> Optional(ZStrOrNum),
     bankruptcy |-> Optional(ZStrOrNum),
     timeToCall |-> Optional(ZString),
     campaignRouting |-> Optional(ZStrOrNum),
     subID |-> Optional(ZString),
     subID2 |-> Optional(ZString),
     subID3 |-> Optional(ZStrOrNum),
     bankMonths |-> Optional(ZStrOrNum),
     subID4 |-> Optional(ZString),
     subID5 |-> Optional(ZString),
     subID6 |-> Optional(ZString),
     subID7 |-> Optional(ZString),
     subID8 |-> Optional(ZString),
     subID9 |-> Optional(ZString),
     subID10 |-> Optional(ZString),
     subIDBig |-> Optional(ZString)]

Shape == [k \in DOMAIN RequiredShape \cup DOMAIN OptionalShape |->
            IF k \in DOMAIN RequiredShape THEN RequiredShape[k]
            ELSE OptionalShape[k]]

Digits == {"0", "1", "2", "3", "4", "5", "6", "7", "8", "9"}
Letters == {"a", "b", "c", "d", "e", "f", "g", "h", "i", "j", "k", "l", "m",
            "n", "o", "p", "q", "r", "s", "t", "u", "v", "w", "x", "y", "z",
            "A", "B", "C", "D", "E", "F", "G", "H", "I", "J", "K", "L", "M",
            "N", "O", "P", "Q", "R", "S", "T", "U", "V", "W", "X", "Y", "Z"}

\* /^\d{4}-\d{2}-\d{2}$/
MatchesDate(s) ==
    /\ Len(s) = 10
    /\ \A i \in {1, 2, 3, 4, 6, 7, 9, 10} : s[i] \in Digits
    /\ s[5] = "-" /\ s[8] = "-"

\* z.string().email(): the library's address pattern, reduced to its
\* structure: a non-empty local part without "@", one "@", a domain of
\* letters, digits, "-" and "." that ends in "." and two or more letters.
MatchesEmail(s) ==
    \E a \in 2..Len(s) :
        /\ s[a] = "@"
        /\ \A i \in 1..Len(s) : s[i] = "@" => i = a
        /\ \A i \in 1..(a - 1) : s[i] \in Letters \cup Digits \cup {".", "_", "+", "-", "'"}
        /\ s[1] # "." /\ s[a - 1] \notin {".", "'"}
        /\ \A i \in (a + 1)..Len(s) : s[i] \in Letters \cup Digits \cup {".", "-"}
        /\ a + 1 <= Len(s) /\ s[a + 1] \in Letters \cup Digits
        /\ \E d \in (a + 2)..(Len(s) - 2) :
              /\ s[d] = "."
              /\ \A i \in (d + 1)..Len(s) : s[i] \in Letters
        /\ \A i \in 1..(Len(s) - 1) : ~(s[i] = "." /\ s[i + 1] = ".")

\* The parse status of one key: "valid", "dirty" (a failed check: an issue
\* is recorded and parsing goes on) or "aborted" (a wrong type: the object
\* is INVALID).
CheckField(d, v) ==
    IF v.t = "undefined" THEN (IF d.optional THEN "valid" ELSE "aborted")
    ELSE IF v.t = "null" THEN (IF d.nullable THEN "valid" ELSE "aborted")
    ELSE IF d.k = "string" THEN
        IF ~IsString(v) THEN "aborted"
        ELSE IF /\ (d.len >= 0 => Len(v.v) = d.len)
                /\ (d.min >= 0 => Len(v.v) >= d.min)
                /\ (d.fmt = "date" => MatchesDate(v.v))
                /\ (d.fmt = "email" => MatchesEmail(v.v))
             THEN "valid" ELSE "dirty"
    ELSE IF d.k = "int" THEN
        IF ~IsNumber(v) THEN "aborted"
        ELSE IF /\ IsInteger(v)
                /\ (d.bounded => (v.v2 >= 2 * d.lo /\ v.v2 <= 2 * d.hi))
             THEN "valid" ELSE "dirty"
    ELSE IF d.k = "enum" THEN
        IF IsString(v) /\ v.v \in d.enum THEN "valid" ELSE "aborted"
    ELSE \* union of string and number
        IF IsString(v) \/ IsNumber(v) THEN "valid" ELSE "aborted"

\* .superRefine (lines 92-100): the paths of the issues it adds
superRefine(data) ==
    IF Get(data, "subID3").t = "undefined" /\ Get(data, "bankMonths").t = "undefined"
    THEN {"bankMonths"} ELSE {}

\* AgoraLeadSchema.parse(raw): unknown keys are stripped; the refinement
\* runs on the parsed object unless the object parse was aborted.
\* Result: threw (a ZodError, which carries .issues), the issue paths, and
\* the parsed value.
AgoraLeadSchemaParse(v) ==
    IF v.t # "object"
    THEN [threw |-> TRUE, formErrors |-> TRUE, fieldErrors |-> {}, value |-> Undefined]
    ELSE
      LET st == [k \in DOMAIN Shape |-> CheckField(Shape[k], Get(v, k))]
          bad == {k \in DOMAIN Shape : st[k] # "valid"}
          aborted == \E k \in DOMAIN Shape : st[k] = "aborted"
          data == Obj([k \in (DOMAIN v.f) \cap (DOMAIN Shape) |-> v.f[k]])
          refined == IF aborted THEN {} ELSE superRefine(data)
      IN [threw |-> (bad \cup refined) # {},
          formErrors |-> FALSE,
          fieldErrors |-> bad \cup refined,
          value |-> data]


-----------------------------------------------------------------------------
(***************************************************************************)
(* The lead POST handler (part_000 lines 102-190).                         *)
(***************************************************************************)
accepted == <<"a", "c", "c", "e", "p", "t", "e", "d">>
rejected == <<"r", "e", "j", "e", "c", "t", "e", "d">>
validation_error == <<"v", "a", "l", "i", "d", "a", "t", "i", "o", "n", "_", "e", "r", "r", "o", "r">>
error == <<"e", "r", "r", "o", "r">>
ACCEPTED == <<"A", "C", "C", "E", "P", "T", "E", "D">>
REJECTED == <<"R", "E", "J", "E", "C", "T", "E", "D">>
UnexpectedServerError == <<"U", "n", "e", "x", "p", "e", "c", "t", "e", "d", " ", "s", "e", "r", "v", "e", "r", " ", "e", "r", "r", "o", "r">>
GoogleCom == <<"h", "t", "t", "p", "s", ":", "/", "/", "g", "o", "o", "g", "l", "e", ".", "c", "o", "m">>

NoResponse == [http |-> 0, body |-> Undefined]

\* NextResponse.json(body, {status}): members whose value is undefined are
\* not serialised.
NextResponseJson(f, status) ==
    [http |-> status,
     body |-> Obj([k \in {x \in DOMAIN f : f[x].t # "undefined"} |-> f[k]])]

\* setTimeout(resolve, 5000 + Math.random() * 4000), lines 104-106
DelayBaseMs == 5000
DelaySpanMs == 4000
\* Math.random() is drawn from {0, 1/NRandom, ..., (NRandom-1)/NRandom}
NRandom == 4
DelayChoices == {DelayBaseMs + (i * DelaySpanMs) \div NRandom : i \in 0..(NRandom - 1)}

\* lines 107-113: the response of the unconditional return
EarlyResponse ==
    NextResponseJson([status |-> Str(accepted), redirectUrl |-> Str(GoogleCom)], 200)

\* lines 117-122: bankMonths -> subID3, then delete payload.bankMonths
Normalize(parsed) ==
    LET p0 == parsed.f
        p1 == IF Get(parsed, "bankMonths").t # "undefined"
                 /\ Get(parsed, "subID3").t = "undefined"
              THEN With(p0, "subID3", p0["bankMonths"])
              ELSE p0
    IN Obj(Without(p1, "bankMonths"))

\* lines 141-148: JSON.parse(text), or { raw: text }
ParseUpstreamText(text) ==
    IF text.json THEN text.v ELSE Obj([raw |-> Str(text.raw)])

\* message ?? "rejected"
OrRejected(m) == IF m.t \in {"undefined", "null"} THEN Str(rejected) ELSE m

\* lines 150-176
MapUpstream(status, up) ==
    IF status = 200 /\ Get(up, "status") = Str(ACCEPTED)
    THEN NextResponseJson([status |-> Str(accepted),
                           redirectUrl |-> Get(up, "redirectUrl"),
                           price |-> Get(up, "price")], 200)
    ELSE IF status = 200 /\ Get(up, "status") = Str(REJECTED)
    THEN NextResponseJson([status |-> Str(rejected),
                           message |-> OrRejected(Get(up, "message"))], 200)
    ELSE NextResponseJson([status |-> Str(error),
                           upstreamStatus |-> Num(status),
                           upstream |-> up], status)

\* lines 177-189: the catch block; err.issues is set on a ZodError only
Catch(err) ==
    IF err.issues
    THEN NextResponseJson(
           [status |-> Str(validation_error),
            errors |-> [t |-> "flatten", formErrors |-> err.formErrors,
                        fieldErrors |-> err.fieldErrors]], 422)
    ELSE NextResponseJson([status |-> Str(error),
                           message |-> Str(UnexpectedServerError)], 500)
OtherError == [issues |-> FALSE, formErrors |-> FALSE, fieldErrors |-> {}]
ZodError(r) == [issues |-> TRUE, formErrors |-> r.formErrors, fieldErrors |-> r.fieldErrors]

Respond(r) ==
    /\ response' = r
    /\ nResponses' = nResponses + 1
    /\ pc' = "done"

\* lines 104-106: the handler starts the timer and awaits it
POST_Delay ==
    /\ pc = "start"
    /\ \E ms \in DelayChoices : delayMs' = ms
    /\ pc' = "sleeping"
    /\ UNCHANGED <<raw, upstreamEnv, bodyRead, validated, payload, outbound,
                   upstream, response, nResponses, codecVars>>

\* POST without the return of lines 107-113: control falls through to
\* line 114 and req.json() is awaited
POST_NoEarlyReturn ==
    /\ pc = "sleeping"
    /\ bodyRead' = TRUE
    /\ IF raw.k = "invalid_json"
       THEN Respond(Catch(OtherError))
       ELSE /\ pc' = "parse"
            /\ UNCHANGED <<response, nResponses>>
    /\ UNCHANGED <<raw, upstreamEnv, delayMs, validated, payload, outbound,
                   upstream, codecVars>>

\* lines 107-113: the timer has fired; the handler returns
POST_EarlyReturn ==
    /\ pc = "sleeping"
    /\ Respond(EarlyResponse)
    /\ UNCHANGED <<raw, upstreamEnv, delayMs, bodyRead, validated, payload,
                   outbound, upstream, codecVars>>

\* line 114: await req.json()
Body_ReadJson ==
    /\ pc = "body"
    /\ bodyRead' = TRUE
    /\ IF raw.k = "invalid_json"
       THEN Respond(Catch(OtherError))
       ELSE /\ pc' = "parse"
            /\ UNCHANGED <<response, nResponses>>
    /\ UNCHANGED <<raw, upstreamEnv, delayMs, validated, payload, outbound,
                   upstream, codecVars>>

\* lines 115-139: parse, normalise, issue the fetch
Body_ParseAndFetch ==
    /\ pc = "parse"
    /\ LET r == AgoraLeadSchemaParse(raw.v)
       IN IF r.threw
          THEN /\ validated' = "failed"
               /\ Respond(Catch(ZodError(r)))
               /\ UNCHANGED <<payload, outbound>>
          ELSE /\ validated' = "passed"
               /\ payload' = Normalize(r.value)
               /\ outbound' = Append(outbound, [method |-> "POST", body |-> payload'])
               /\ pc' = "fetching"
               /\ UNCHANGED <<response, nResponses>>
    /\ UNCHANGED <<raw, upstreamEnv, delayMs, bodyRead, upstream, codecVars>>

\* line 130 settles: fetch rejects, or resolves and res.text() is awaited
Body_FetchSettles ==
    /\ pc = "fetching"
    /\ IF upstreamEnv.k = "fetch_throws"
       THEN Respond(Catch(OtherError))
       ELSE /\ pc' = "text"
            /\ UNCHANGED <<response, nResponses>>
    /\ UNCHANGED <<raw, upstreamEnv, delayMs, bodyRead, validated, payload,
                   outbound, upstream, codecVars>>

\* lines 142-176: res.text() settles; parse and map
Body_TextSettles ==
    /\ pc = "text"
    /\ IF upstreamEnv.k = "text_throws"
       THEN /\ Respond(Catch(OtherError))
            /\ UNCHANGED upstream
       ELSE /\ upstream' = ParseUpstreamText(upstreamEnv.text)
            /\ Respond(MapUpstream(upstreamEnv.status, upstream'))
    /\ UNCHANGED <<raw, upstreamEnv, delayMs, bodyRead, validated, payload,
                   outbound, codecVars>>


-----------------------------------------------------------------------------
(***************************************************************************)
(* Requests and upstream behaviours the handler is run against.            *)
(***************************************************************************)
BaseLead ==
    [campaignID |-> Num(7),
     ipAddress |-> Str(<<"1", "0", ".", "0", ".", "0", ".", "1">>),
     sourceURL |-> Str(<<"h", "t", "t", "p", "s", ":", "/", "/", "s">>),
     firstName |-> Str(<<"A", "n", "n">>),
     lastName |-> Str(<<"L", "e", "e">>),
     streetAddress |-> Str(<<"1", " ", "M", "a", "i", "n", " ", "S", "t">>),
     city |-> Str(<<"R", "e", "n", "o">>),
     state |-> Str(<<"C", "A">>),
     zipCode |-> Str(<<"9", "4", "1", "1", "0">>),
     homePhone |-> Str(<<"4", "1", "5", "5", "5", "5", "0", "1", "0", "0">>),
     workPhone |-> Str(<<"4", "1", "5", "5", "5", "5", "0", "1", "0", "1">>),
     mobilePhone |-> Str(<<"4", "1", "5", "5", "5", "5", "0", "1", "0", "2">>),
     email |-> Str(<<"a", "n", "n", "@", "e", "x", "a", "m", "p", "l", "e", ".", "c", "o", "m">>),
     dateOfBirth |-> Str(<<"1", "9", "9", "0", "-", "0", "1", "-", "3", "1">>),
     ssn |-> Str(<<"1", "2", "3", "4", "5", "6", "7", "8", "9">>),
     ownRent |-> Str(rent),
     yearsAtResidence |-> Num(3),
     monthsAtResidence |-> Num(11),
     incomeSource |-> Str(employment),
     employer |-> Str(<<"A", "c", "m", "e">>),
     yearsAtEmployer |-> Num(127),
     monthsAtEmployer |-> Num(0),
     monthlyIncome |-> Num(4200),
     loanAmount |-> Str(<<"5", "0", "0">>),
     payMethod |-> Str(checking),
     payPeriod |-> Str(biWeekly),
     firstPayDate |-> Str(<<"2", "0", "2", "6", "-", "1", "1", "-", "1", "3">>),
     secondPayDate |-> Str(<<"2", "0", "2", "6", "-", "1", "1", "-", "2", "7">>),
     bankName |-> Str(<<"F", "i", "r", "s", "t">>),
     bankAccountType |-> Str(checking),
     bankRoutingNumber |-> Str(<<"0", "2", "1", "0", "0", "0", "0", "2", "1">>),
     bankAccountNumber |-> Str(<<"0", "0", "0", "1", "2", "3">>),
     activeMilitary |-> Num(0),
     minPrice |-> Str(<<"1", ".", "5">>)]

\* One change of the base form: set a key, or remove it (val Undefined).
Edits ==
    {[key |-> "state", val |-> Str(<<"C", "A">>)],
     [key |-> "state", val |-> Str(<<"C", "a", "l", "i", "f", "o", "r", "n", "i", "a">>)],
     [key |-> "state", val |-> Num(5)],
     [key |-> "campaignID", val |-> Half(15)],
     [key |-> "campaignID", val |-> Str(<<"7">>)],
     [key |-> "email", val |-> Undefined],
     [key |-> "email", val |-> Str(<<"a", "n", "n", ".", "e", "x", "a", "m", "p", "l", "e", ".", "c", "o", "m">>)],
     [key |-> "dateOfBirth", val |-> Str(<<"0", "1", "/", "3", "1", "/", "1", "9", "9", "0">>)],
     [key |-> "monthsAtResidence", val |-> Num(12)],
     [key |-> "zipCode", val |-> Str(<<"9", "4", "1", "1">>)],
     [key |-> "gender", val |-> Str(<<"x">>)],
     [key |-> "gender", val |-> Str(<<"f">>)],
     [key |-> "streetAddress2", val |-> Null],
     [key |-> "utm", val |-> Str(<<"a", "d">>)]}

SubID3Choices == {Undefined, Str(<<"2", "4">>), Num(12)}
BankMonthsChoices == {Undefined, Str(<<"3", "6">>), Num(6)}

Apply(f, e) == IF e.val.t = "undefined" THEN Without(f, e.key) ELSE With(f, e.key, e.val)

Lead(s3, bm, e) ==
    Apply(Apply(Apply(BaseLead, [key |-> "subID3", val |-> s3]),
                [key |-> "bankMonths", val |-> bm]), e)

Bodies ==
    {[k |-> "invalid_json"], [k |-> "json", v |-> Null],
     [k |-> "json", v |-> Str(<<"l", "e", "a", "d">>)]}
    \cup {[k |-> "json", v |-> Obj(Lead(s3, bm, e))] :
            s3 \in SubID3Choices, bm \in BankMonthsChoices, e \in Edits}

UpstreamBodies ==
    {[json |-> FALSE, raw |-> <<"o", "o", "p", "s">>],
     [json |-> TRUE, v |-> Null],
     [json |-> TRUE, v |-> Str(ACCEPTED)],
     [json |-> TRUE, v |-> Obj([status |-> Str(ACCEPTED),
                                redirectUrl |-> Str(<<"h", "t", "t", "p", "s", ":", "/", "/", "x">>),
                                price |-> Num(42)])],
     [json |-> TRUE, v |-> Obj([status |-> Str(ACCEPTED)])],
     [json |-> TRUE, v |-> Obj([status |-> Str(accepted),
                                redirectUrl |-> Str(<<"h", "t", "t", "p", "s", ":", "/", "/", "x">>)])],
     [json |-> TRUE, v |-> Obj([status |-> Str(REJECTED),
                                message |-> Str(<<"n", "o", " ", "b", "u", "y", "e", "r">>)])],
     [json |-> TRUE, v |-> Obj([status |-> Str(REJECTED)])],
     [json |-> TRUE, v |-> Obj([status |-> Str(REJECTED), message |-> Null])],
     [json |-> TRUE, v |-> Obj([status |-> Str(error),
                                message |-> Str(<<"b", "a", "d", " ", "k", "e", "y">>)])]}

UpstreamStatuses == {200, 401, 503}

UpstreamEnvs ==
    {[k |-> "fetch_throws"], [k |-> "text_throws"]}
    \cup {[k |-> "reply", status |-> st, text |-> b] :
            st \in UpstreamStatuses, b \in UpstreamBodies}


-----------------------------------------------------------------------------
(***************************************************************************)
(* Text encodings used by the token codec.  A string is a sequence of      *)
(* UTF-16 code units, a buffer a sequence of bytes.                        *)
(***************************************************************************)
IsHigh(c) == c >= 55296 /\ c <= 56319
IsLow(c) == c >= 56320 /\ c <= 57343
Replacement == <<239, 191, 189>>

\* the sequences ss[lo], ..., ss[hi] joined
RECURSIVE Concat(_, _, _)
Concat(ss, lo, hi) ==
    IF lo > hi THEN <<>>
    ELSE IF lo = hi THEN ss[lo]
    ELSE LET mid == (lo + hi) \div 2
         IN Concat(ss, lo, mid) \o Concat(ss, mid + 1, hi)
Flatten(ss) == Concat(ss, 1, Len(ss))

\* the bytes the code unit s[i] contributes: a surrogate pair is encoded
\* at its high half, an unpaired surrogate becomes U+FFFD
Utf8Unit(s, i) ==
    LET c == s[i] IN
      IF c < 128 THEN <<c>>
      ELSE IF c < 2048 THEN <<192 + (c \div 64), 128 + (c % 64)>>
      ELSE IF IsHigh(c) /\ i < Len(s) /\ IsLow(s[i + 1])
        THEN LET cp == 65536 + (c - 55296) * 1024 + (s[i + 1] - 56320)
             IN <<240 + (cp \div 262144), 128 + ((cp \div 4096) % 64),
                  128 + ((cp \div 64) % 64), 128 + (cp % 64)>>
      ELSE IF IsLow(c) /\ i > 1 /\ IsHigh(s[i - 1]) THEN <<>>
      ELSE IF IsHigh(c) \/ IsLow(c) THEN Replacement
      ELSE <<224 + (c \div 4096), 128 + ((c \div 64) % 64), 128 + (c % 64)>>

\* new TextEncoder().encode(s), Buffer.from(s): UTF-8
Utf8Encode(s) == Flatten([i \in 1..Len(s) |-> Utf8Unit(s, i)])

\* code units of one code point
Units(cp) ==
    IF cp < 65536 THEN <<cp>>
    ELSE <<55296 + ((cp - 65536) \div 1024), 56320 + ((cp - 65536) % 1024)>>

\* continuation bytes the lead byte x needs; 0 when x is not a lead byte
Need(x) ==
    IF x >= 194 /\ x <= 223 THEN 1
    ELSE IF x >= 224 /\ x <= 239 THEN 2
    ELSE IF x >= 240 /\ x <= 244 THEN 3
    ELSE 0
\* the range of the k-th continuation byte after the lead byte x
ContLo(x, k) ==
    IF k = 1 /\ x = 224 THEN 160 ELSE IF k = 1 /\ x = 240 THEN 144 ELSE 128
ContHi(x, k) ==
    IF k = 1 /\ x = 237 THEN 159 ELSE IF k = 1 /\ x = 244 THEN 143 ELSE 191
\* how many of the bytes after the lead byte b[i] continue its sequence
Taken(b, i) ==
    LET ks == {k \in 0..Need(b[i]) :
                 \A j \in 1..k : /\ i + j <= Len(b)
                                 /\ b[i + j] >= ContLo(b[i], j)
                                 /\ b[i + j] <= ContHi(b[i], j)}
    IN CHOOSE k \in ks : \A m \in ks : m <= k
\* b[i] continues the sequence of a lead byte before it
Consumed(b, i) ==
    \E d \in 1..3 : i - d >= 1 /\ Need(b[i - d]) > 0 /\ Taken(b, i - d) >= d
\* the code units decoded at byte i: a complete sequence gives its code
\* point, a maximal ill-formed subsequence gives U+FFFD
Utf8At(b, i) ==
    LET x == b[i]
        n == Need(x)
        c(j) == b[i + j] - 128
    IN IF Consumed(b, i) THEN <<>>
       ELSE IF x < 128 THEN <<x>>
       ELSE IF n = 0 \/ Taken(b, i) < n THEN <<65533>>
       ELSE IF n = 1 THEN Units((x - 192) * 64 + c(1))
       ELSE IF n = 2 THEN Units((x - 224) * 4096 + c(1) * 64 + c(2))
       ELSE Units((x - 240) * 262144 + c(1) * 4096 + c(2) * 64 + c(3))

\* new TextDecoder().decode(b), buf.toString("utf-8"): the UTF-8 decoder
\* that replaces every maximal ill-formed subsequence by U+FFFD
Utf8Decode(b) == Flatten([i \in 1..Len(b) |-> Utf8At(b, i)])

\* the base64 alphabets: index -> character
B64Char(n) ==
    IF n < 26 THEN 65 + n
    ELSE IF n < 52 THEN 97 + (n - 26)
    ELSE IF n < 62 THEN 48 + (n - 52)
    ELSE IF n = 62 THEN 43 ELSE 47
B64UrlChar(n) == IF n = 62 THEN 45 ELSE IF n = 63 THEN 95 ELSE B64Char(n)

\* character -> index, 64 for a character of neither alphabet.  Node's
\* decoder reads "+" and "-" as 62, "/" and "_" as 63.
Unbase64(c) ==
    IF c >= 65 /\ c <= 90 THEN c - 65
    ELSE IF c >= 97 /\ c <= 122 THEN c - 97 + 26
    ELSE IF c >= 48 /\ c <= 57 THEN c - 48 + 52
    ELSE IF c = 43 \/ c = 45 THEN 62
    ELSE IF c = 47 \/ c = 95 THEN 63
    ELSE 64

\* index of the first c in s, 0 if there is none
IndexOf(s, c) ==
    LET at == {i \in 1..Len(s) : s[i] = c}
    IN IF at = {} THEN 0 ELSE CHOOSE i \in at : \A j \in at : i <= j

\* base64 of the bytes b: four characters for every three bytes, the last
\* group padded with "=" or cut short
B64Groups(b, url, pad) ==
    LET n == Len(b)
        r == n % 3
        len == IF pad THEN 4 * ((n + 2) \div 3)
               ELSE 4 * (n \div 3) + (IF r = 0 THEN 0 ELSE r + 1)
        ch(x) == IF url THEN B64UrlChar(x) ELSE B64Char(x)
        byte(k) == IF k <= n THEN b[k] ELSE 0
        at(j) ==
          LET g == (j - 1) \div 4
              k == (j - 1) % 4
              b1 == byte(3 * g + 1)
              b2 == byte(3 * g + 2)
              b3 == byte(3 * g + 3)
          IN IF k = 0 THEN ch(b1 \div 4)
             ELSE IF k = 1 THEN ch((b1 % 4) * 16 + (b2 \div 16))
             ELSE IF k = 2
               THEN (IF 3 * g + 2 <= n THEN ch((b2 % 16) * 4 + (b3 \div 64)) ELSE 61)
             ELSE (IF 3 * g + 3 <= n THEN ch(b3 % 64) ELSE 61)
    IN [j \in 1..len |-> at(j)]

\* buf.toString("base64")
Base64Encode(b) == B64Groups(b, FALSE, TRUE)
\* jose's base64url.encode: URL alphabet, no padding
Base64UrlEncode(b) == B64Groups(b, TRUE, FALSE)

IsBase64Char(c) == Unbase64(c) < 64
\* the sextets of the legal characters of s up to the first "="
Sextets(s) ==
    LET stop == IndexOf(s, 61)
        head == IF stop = 0 THEN s ELSE SubSeq(s, 1, stop - 1)
        kept == SelectSeq(head, IsBase64Char)
    IN [i \in 1..Len(kept) |-> Unbase64(kept[i])]

\* three bytes for every four sextets; two or three sextets left over give
\* one or two bytes, one sextet left over gives none
SextetsToBytes(x) ==
    LET r == Len(x) % 4
        n == 3 * (Len(x) \div 4) + (IF r = 2 THEN 1 ELSE IF r = 3 THEN 2 ELSE 0)
        at(j) ==
          LET g == 4 * ((j - 1) \div 3)
              k == (j - 1) % 3
          IN IF k = 0 THEN (x[g + 1] * 4 + (x[g + 2] \div 16)) % 256
             ELSE IF k = 1 THEN ((x[g + 2] % 16) * 16 + (x[g + 3] \div 4)) % 256
             ELSE (x[g + 3] % 4) * 64 + x[g + 4]
    IN [j \in 1..n |-> at(j)]

\* Buffer.from(s, "base64"): both alphabets are read, characters of
\* neither are skipped, the first "=" ends the input
Base64Decode(s) == SextetsToBytes(Sextets(s))

\* s.split(sep) for a one-character separator
Split(s, sep) ==
    LET at == {i \in 1..Len(s) : s[i] = sep}
        n == Cardinality(at)
        pos(k) == IF k = 0 THEN 0
                  ELSE IF k = n + 1 THEN Len(s) + 1
                  ELSE CHOOSE p \in at : Cardinality({q \in at : q < p}) = k - 1
    IN [k \in 1..(n + 1) |->
          [i \in 1..(pos(k) - pos(k - 1) - 1) |-> s[pos(k - 1) + i]]]


-----------------------------------------------------------------------------
(***************************************************************************)
(* The request URL and its query (new URL(req.url).searchParams).          *)
(***************************************************************************)
HexVal(c) ==
    IF c >= 48 /\ c <= 57 THEN c - 48
    ELSE IF c >= 65 /\ c <= 70 THEN c - 55
    ELSE IF c >= 97 /\ c <= 102 THEN c - 87
    ELSE 16

\* a %XX escape starts at b[i]
EscapeAt(b, i) ==
    b[i] = 37 /\ i + 2 <= Len(b) /\ HexVal(b[i + 1]) < 16 /\ HexVal(b[i + 2]) < 16
\* every %XX escape replaced by its byte
PercentDecode(b) ==
    Flatten([i \in 1..Len(b) |->
               IF EscapeAt(b, i) THEN <<16 * HexVal(b[i + 1]) + HexVal(b[i + 2])>>
               ELSE IF (i > 1 /\ EscapeAt(b, i - 1)) \/ (i > 2 /\ EscapeAt(b, i - 2))
                 THEN <<>>
               ELSE <<b[i]>>])

\* a name or value of an application/x-www-form-urlencoded pair: "+" is a
\* space, %XX a byte, the bytes are UTF-8
FormDecode(s) ==
    Utf8Decode(PercentDecode(Utf8Encode([i \in 1..Len(s) |-> IF s[i] = 43 THEN 32 ELSE s[i]])))

\* the query of a URL: after the first "?", before the fragment
UrlQuery(url) ==
    LET h == IndexOf(url, 35)
        noFrag == IF h = 0 THEN url ELSE SubSeq(url, 1, h - 1)
        q == IndexOf(noFrag, 63)
    IN IF q = 0 THEN <<>> ELSE SubSeq(noFrag, q + 1, Len(noFrag))

NullToken == [isNull |-> TRUE, v |-> <<>>]
SomeToken(v) == [isNull |-> FALSE, v |-> v]

\* searchParams.get(name): the value of the first pair named name, or null
RECURSIVE FirstNamed(_, _, _)
FirstNamed(pairs, name, i) ==
    IF i > Len(pairs) THEN NullToken
    ELSE LET p == pairs[i]
             e == IndexOf(p, 61)
             n == IF e = 0 THEN p ELSE SubSeq(p, 1, e - 1)
             v == IF e = 0 THEN <<>> ELSE SubSeq(p, e + 1, Len(p))
         IN IF p # <<>> /\ FormDecode(n) = name THEN SomeToken(FormDecode(v))
            ELSE FirstNamed(pairs, name, i + 1)
SearchParamsGet(url, name) == FirstNamed(Split(UrlQuery(url), 38), name, 1)

\* "token"
TokenName == <<116, 111, 107, 101, 110>>

-----------------------------------------------------------------------------
(***************************************************************************)
(* Authenticated encryption.  The cipher itself is library code; it is     *)
(* modelled by what its interface guarantees: decryption inverts           *)
(* encryption under the same key and IV, and the tag binds key, IV,        *)
(* additional data and ciphertext (the tag is written out as exactly that  *)
(* data, so that two tags are equal only if all of it is equal).           *)
(***************************************************************************)
\* the counter-mode pad of a key and an IV
Pad(k, iv) == (3 * k + 5 * iv + 1) % 256

GcmCiphertext(k, iv, pt) == [i \in 1..Len(pt) |-> (pt[i] + Pad(k, iv[1])) % 256]
GcmPlaintext(k, iv, ct) == [i \in 1..Len(ct) |-> (ct[i] + 256 - Pad(k, iv[1])) % 256]
GcmTag(k, iv, aad, ct) == <<k, Len(iv)>> \o iv \o <<Len(aad)>> \o aad \o ct

\* AES-GCM decryption: fails unless the IV is usable and the tag verifies
GcmDecrypt(k, iv, aad, ct, tag) ==
    IF Len(iv) >= 1 /\ tag = GcmTag(k, iv, aad, ct)
    THEN [ok |-> TRUE, pt |-> GcmPlaintext(k, iv, ct)]
    ELSE [ok |-> FALSE, pt |-> <<>>]

\* PBES2 key derivation from the password and the salt of the header
Pbkdf2(pw, salt) == 16 * pw + salt
\* AES key wrap of the content key; unwrapping checks integrity
KeyWrap(kek, cek) == <<kek, cek>>
KeyUnwrap(kek, ek) ==
    IF Len(ek) = 2 /\ ek[1] = kek THEN [ok |-> TRUE, cek |-> ek[2]]
    ELSE [ok |-> FALSE, cek |-> 0]

\* the protected header {alg: "PBES2-HS256+A256KW", enc: "A256GCM", p2s}:
\* "{", the salt, "}"
ProtectedHeader(salt) == <<123, 65 + salt, 125>>
HeaderSalt(h) ==
    IF Len(h) = 3 /\ h[1] = 123 /\ h[3] = 125 /\ h[2] >= 65 /\ h[2] < 81
    THEN [ok |-> TRUE, salt |-> h[2] - 65]
    ELSE [ok |-> FALSE, salt |-> 0]

\* the outcomes of the random draws of one encryption (salt, content key,
\* IV) that are explored
RandomDraws ==
    {[salt |-> 0, cek |-> 1, iv |-> 0],
     [salt |-> 1, cek |-> 0, iv |-> 251]}

Join5(a, b, c, d, e) == a \o <<46>> \o b \o <<46>> \o c \o <<46>> \o d \o <<46>> \o e

\* encrypt (part_001 lines 117-123): new CompactEncrypt(bytes)
\*   .setProtectedHeader({alg, enc}).encrypt(pw) -> compact JWE
encrypt(plaintext, key, r) ==
    LET bytes == Utf8Encode(plaintext)
        hdr == Base64UrlEncode(ProtectedHeader(r.salt))
        ek == KeyWrap(Pbkdf2(key, r.salt), r.cek)
        iv == <<r.iv>>
        ct == GcmCiphertext(r.cek, iv, bytes)
        tag == GcmTag(r.cek, iv, hdr, ct)
    IN Join5(hdr, Base64UrlEncode(ek), Base64UrlEncode(iv),
             Base64UrlEncode(ct), Base64UrlEncode(tag))

Failed == [ok |-> FALSE, pt |-> <<>>]

\* decrypt (redirect/route.ts lines 21-25): compactDecrypt(jwe, pw), then
\* TextDecoder.decode(plaintext).  ok = FALSE: the call throws.
decrypt(jwe, key) ==
    LET parts == Split(jwe, 46) IN
    IF Len(parts) # 5 THEN Failed
    ELSE
      LET h == HeaderSalt(Base64Decode(parts[1]))
          uw == KeyUnwrap(Pbkdf2(key, h.salt), Base64Decode(parts[2]))
          g == GcmDecrypt(uw.cek, Base64Decode(parts[3]), Utf8Encode(parts[1]),
                          Base64Decode(parts[4]), Base64Decode(parts[5]))
      IN IF h.ok /\ uw.ok /\ g.ok
         THEN [ok |-> TRUE, pt |-> Utf8Decode(g.pt)]
         ELSE Failed

\* decrypt (part_002 lines 17-41): "iv:cipher", both base64, AES-GCM with
\* the raw key; the cipher text ends with the tag.  ok = FALSE: the call
\* throws (Buffer.from(undefined), importKey or decrypt).
decryptIvCipher(encrypted, key) ==
    LET parts == Split(encrypted, 58) IN
    IF Len(parts) < 2 THEN Failed
    ELSE
      LET iv == Base64Decode(parts[1])
          cipher == Base64Decode(parts[2])
          n2 == Len(cipher) - 3 - Len(iv)
          n == n2 \div 2
      IN IF n2 < 0 \/ n2 % 2 # 0 THEN Failed
         ELSE LET g == GcmDecrypt(key, iv, <<>>, SubSeq(cipher, 1, n),
                                  SubSeq(cipher, n + 1, Len(cipher)))
              IN IF g.ok THEN [ok |-> TRUE, pt |-> Utf8Decode(g.pt)] ELSE Failed


-----------------------------------------------------------------------------
(***************************************************************************)
(* The encrypting POST handler (part_001 lines 125-142).                   *)
(***************************************************************************)
\* "https://google.com"
GoogleUrl ==
    <<104, 116, 116, 112, 115, 58, 47, 47, 103, 111, 111, 103, 108, 101, 46,
    99, 111, 109>>
\* "https://prod.americacashfast.com/redirect?token="
RedirectPrefix ==
    <<104, 116, 116, 112, 115, 58, 47, 47, 112, 114, 111, 100, 46, 97, 109,
    101, 114, 105, 99, 97, 99, 97, 115, 104, 102, 97, 115, 116, 46, 99, 111,
    109, 47, 114, 101, 100, 105, 114, 101, 99, 116, 63, 116, 111, 107, 101,
    110, 61>>

\* the compact JWE appended as it is, without the base64 wrapping
RedirectUrl_Unwrapped(encrypted) == RedirectPrefix \o Utf8Encode(encrypted)

\* lines 131-136: base64 of the compact JWE, appended to the redirect URL
RedirectUrl(encrypted) == RedirectPrefix \o Base64Encode(Utf8Encode(encrypted))

NoIssue == [u |-> <<>>, url |-> <<>>]

\* lines 126-128: the handler awaits the timer (the duration is not kept:
\* nothing after it reads it)
CPOST_Delay ==
    /\ pc = "start"
    /\ issued = NoIssue
    /\ pc' = "sleeping"
    /\ UNCHANGED <<raw, upstreamEnv, delayMs, bodyRead, validated, payload,
                   outbound, upstream, response, nResponses, codecVars>>

\* lines 130-141: encrypt the literal, wrap, respond
CPOST_Respond ==
    /\ pc = "sleeping"
    /\ \E r \in RandomDraws :
         LET url == RedirectUrl(encrypt(GoogleUrl, encKey, r))
         IN /\ issued' = [u |-> GoogleUrl, url |-> url]
            /\ Respond([http |-> 200,
                        body |-> Obj([status |-> Str(accepted),
                                      redirectUrl |-> Str(url)]),
                        headers |-> "CORS_HEADERS"])
    /\ UNCHANGED <<raw, upstreamEnv, delayMs, bodyRead, validated, payload,
                   outbound, upstream, encKey, greq, gpc, token, decryptCalls,
                   gresp>>

\* destination URLs: strings of one to MaxUrlLen characters
MaxUrlLen == 2
\* "h", e-acute (2 bytes), euro sign (3 bytes), U+1F600 (a surrogate pair)
UrlChars == {<<104>>, <<233>>, <<8364>>, <<55357, 56832>>}
RECURSIVE StringsOf(_)
StringsOf(n) ==
    IF n = 0 THEN {<<>>}
    ELSE LET shorter == StringsOf(n - 1)
         IN shorter \cup {s \o c : s \in shorter, c \in UrlChars}
DestUrls == StringsOf(MaxUrlLen) \ {<<>>}

\* the exported encrypt (lines 117-123) called with another destination,
\* its result wrapped as lines 131-136 wrap it
Encrypt_Call ==
    /\ pc = "start"
    /\ issued = NoIssue
    /\ \E u \in DestUrls, r \in RandomDraws :
         issued' = [u |-> u, url |-> RedirectUrl(encrypt(u, encKey, r))]
    /\ UNCHANGED <<leadVars, encKey, greq, gpc, token, decryptCalls, gresp>>

-----------------------------------------------------------------------------
(***************************************************************************)
(* The redirect GET handlers.                                              *)
(***************************************************************************)
NoRequest == [variant |-> "none", url |-> <<>>]
NoGResp == [kind |-> "none"]
\* NextResponse.json({ error: "Missing token" }, { status: 400 })
MissingToken == [kind |-> "json", http |-> 400, error |-> "Missing token"]
\* NextResponse.redirect(x)
RedirectTo(x) == [kind |-> "redirect", location |-> x]
\* the handler's promise rejected: the server answers with an error
HandlerThrew == [kind |-> "error"]

\* token === "" in place of !token
Falsy_EmptyOnly(t) == ~t.isNull /\ t.v = <<>>

\* !token
Falsy(t) == t.isNull \/ t.v = <<>>

\* redirect/route.ts lines 4-17: read the token, call decrypt
GET(variant) ==
    /\ gpc = "received"
    /\ greq.variant = variant
    /\ token' = SearchParamsGet(greq.url, TokenName)
    /\ IF Falsy(token')
       THEN /\ gresp' = MissingToken
            /\ gpc' = "done"
            /\ UNCHANGED decryptCalls
       ELSE /\ decryptCalls' = decryptCalls + 1
            /\ gpc' = "decrypting"
            /\ UNCHANGED gresp
    /\ UNCHANGED <<leadVars, encKey, issued, greq>>

\* a handler that redirects to whatever decrypt left, failed or not
Settle_RedirectAnyway(d) ==
    /\ gresp' = RedirectTo(d.pt)
    /\ gpc' = "done"
    /\ UNCHANGED <<leadVars, encKey, issued, greq, token, decryptCalls>>

\* the awaited decrypt settles: redirect, or the rejection leaves the handler
Settle(d) ==
    /\ gresp' = IF d.ok THEN RedirectTo(d.pt) ELSE HandlerThrew
    /\ gpc' = "done"
    /\ UNCHANGED <<leadVars, encKey, issued, greq, token, decryptCalls>>

\* redirect/route.ts
RouteGET_Token == GET("jwe")
\* lines 13-19
RouteGET_Redirect ==
    /\ gpc = "decrypting"
    /\ greq.variant = "jwe"
    /\ LET decoded == Utf8Decode(Base64Decode(token.v))
       IN Settle(decrypt(decoded, encKey))

\* part_002
IvCipherGET_Token == GET("ivcipher")
\* lines 13-14
IvCipherGET_Redirect ==
    /\ gpc = "decrypting"
    /\ greq.variant = "ivcipher"
    /\ Settle(decryptIvCipher(token.v, encKey))


-----------------------------------------------------------------------------
(***************************************************************************)
(* The clients of the redirect endpoint.                                   *)
(***************************************************************************)
\* the values of ENCRYPTION_KEY: of this deployment, and of another one
Keys == {1}
ForeignKeys == {2}

Hex(n) == IF n < 10 THEN 48 + n ELSE 55 + n
Unreserved(b) ==
    \/ (b >= 65 /\ b <= 90) \/ (b >= 97 /\ b <= 122) \/ (b >= 48 /\ b <= 57)
    \/ b \in {45, 95, 46, 33, 126, 42, 39, 40, 41}
PercentEncode(b) ==
    Flatten([i \in 1..Len(b) |->
               IF Unreserved(b[i]) THEN <<b[i]>>
               ELSE <<37, Hex(b[i] \div 16), Hex(b[i] % 16)>>])
\* encodeURIComponent(s)
EncodeURIComponent(s) == PercentEncode(Utf8Encode(s))

\* a token of the iv:ciphertext format for a destination: base64(iv) ":"
\* base64(ciphertext and tag), AES-GCM under the raw key
MintIvCipher(plaintext, key, ivByte) ==
    LET iv == <<ivByte>>
        ct == GcmCiphertext(key, iv, Utf8Encode(plaintext))
    IN Base64Encode(iv) \o <<58>> \o Base64Encode(ct \o GcmTag(key, iv, <<>>, ct))

\* url with its p-th character replaced by c
Altered(url, p, c) == [i \in 1..Len(url) |-> IF i = p THEN c ELSE url[i]]
\* the characters an altered token gets: "A", "+", "="
AlterChars == {65, 43, 61}
TokenPositions(url) == (Len(RedirectPrefix) + 1)..Len(url)
Alterations(url) ==
    {Altered(url, p, c) : p \in TokenPositions(url), c \in AlterChars} \ {url}

\* URLs without a token parameter: no query; another parameter only
\* ("?t=A"); an empty token ("?token=" reads as "", not as null)
Redirect == SubSeq(RedirectPrefix, 1, Len(RedirectPrefix) - 7)
NoTokenUrls == {Redirect, Redirect \o <<63, 116, 61, 65>>}
EmptyTokenUrl == RedirectPrefix

\* the URLs a client of the compact-JWE handler requests once a redirect
\* URL was issued: that URL; an alteration of it; a URL without token; a
\* token made under another key; a token of the other format
JweRequests ==
    {issued.url} \cup Alterations(issued.url) \cup NoTokenUrls \cup {EmptyTokenUrl}
    \cup {RedirectUrl(encrypt(issued.u, k, r)) :
            k \in ForeignKeys, r \in {x \in RandomDraws : x.salt = 0}}
    \cup {RedirectPrefix \o EncodeURIComponent(MintIvCipher(issued.u, encKey, 251))}

\* the same for the iv:ciphertext handler; its tokens are made for the
\* issued destination
IvCipherRequests ==
    LET good == RedirectPrefix \o EncodeURIComponent(MintIvCipher(issued.u, encKey, 251))
    IN {good} \cup Alterations(good)
       \cup {RedirectPrefix \o MintIvCipher(issued.u, encKey, 251)}
       \cup NoTokenUrls \cup {EmptyTokenUrl}
       \cup {RedirectPrefix \o EncodeURIComponent(MintIvCipher(issued.u, k, 251)) :
               k \in ForeignKeys}
       \cup {issued.url}

Client_Request ==
    /\ issued # NoIssue
    /\ greq = NoRequest
    /\ \/ \E url \in JweRequests : greq' = [variant |-> "jwe", url |-> url]
       \/ \E url \in IvCipherRequests : greq' = [variant |-> "ivcipher", url |-> url]
    /\ gpc' = "received"
    /\ UNCHANGED <<leadVars, encKey, issued, token, decryptCalls, gresp>>

\* the codec handlers are idle while the lead handler runs
CodecIdle ==
    /\ encKey = 0
    /\ issued = NoIssue
    /\ greq = NoRequest
    /\ gpc = "idle"
    /\ token = NullToken
    /\ decryptCalls = 0
    /\ gresp = NoGResp

LeadFresh ==
    /\ raw \in Bodies
    /\ upstreamEnv \in UpstreamEnvs
    /\ bodyRead = FALSE
    /\ validated = "no"
    /\ payload = Undefined
    /\ outbound = <<>>
    /\ upstream = Undefined
    /\ response = NoResponse
    /\ nResponses = 0

\* A request arrives at POST as captured in part_000.
Init ==
    /\ LeadFresh
    /\ pc = "start"
    /\ delayMs = 0
    /\ CodecIdle

Next ==
    \/ POST_Delay
    \/ POST_EarlyReturn

Spec == Init /\ [][Next]_vars

\* Control at line 114: the statements that follow the return of line 107.
BodyInit ==
    /\ LeadFresh
    /\ pc = "body"
    /\ delayMs \in DelayChoices
    /\ CodecIdle

BodyNext ==
    \/ Body_ReadJson
    \/ Body_ParseAndFetch
    \/ Body_FetchSettles
    \/ Body_TextSettles

BodySpec == BodyInit /\ [][BodyNext]_vars


-----------------------------------------------------------------------------
(***************************************************************************)
(* The codec: the encrypting POST of part_001 and the redirect handlers.   *)
(***************************************************************************)
CodecInit ==
    /\ raw = [k |-> "invalid_json"]
    /\ upstreamEnv = [k |-> "fetch_throws"]
    /\ pc = "start"
    /\ delayMs = 0
    /\ bodyRead = FALSE
    /\ validated = "no"
    /\ payload = Undefined
    /\ outbound = <<>>
    /\ upstream = Undefined
    /\ response = NoResponse
    /\ nResponses = 0
    /\ encKey \in Keys
    /\ issued = NoIssue
    /\ greq = NoRequest
    /\ gpc = "idle"
    /\ token = NullToken
    /\ decryptCalls = 0
    /\ gresp = NoGResp

CodecNext ==
    \/ CPOST_Delay
    \/ CPOST_Respond
    \/ Encrypt_Call
    \/ Client_Request
    \/ RouteGET_Token
    \/ RouteGET_Redirect
    \/ IvCipherGET_Token
    \/ IvCipherGET_Redirect

CodecSpec == CodecInit /\ [][CodecNext]_vars


-----------------------------------------------------------------------------
(***************************************************************************)
(* Properties of the lead POST handler.                                    *)
(***************************************************************************)
IsForm == raw.k = "json" /\ raw.v.t = "object"
PassesValidation == raw.k = "json" /\ ~AgoraLeadSchemaParse(raw.v).threw
FailsValidation == raw.k = "json" /\ AgoraLeadSchemaParse(raw.v).threw
StatusOf(r) == Get(r.body, "status")

\* C1: a submission in which both subID3 and bankMonths are absent is
\* answered with HTTP 422, status "validation_error", and an error list
\* that holds an issue whose path is bankMonths.
C1_MissingBankMonthsIs422 ==
    (/\ pc = "done"
     /\ IsForm
     /\ Get(raw.v, "subID3").t = "undefined"
     /\ Get(raw.v, "bankMonths").t = "undefined")
    => /\ response.http = 422
       /\ StatusOf(response) = Str(validation_error)
       /\ "bankMonths" \in Get(response.body, "errors").fieldErrors

\* C2: for a submission that passes validation, the payload forwarded
\* upstream has no bankMonths key, its subID3 is the submission's subID3
\* when that was set and the submission's bankMonths otherwise, and every
\* other validated field is forwarded unchanged.
C2_ForwardedPayloadNormalized ==
    (pc = "done" /\ PassesValidation)
    => /\ Len(outbound) = 1
       /\ LET sent == outbound[1].body
              form == AgoraLeadSchemaParse(raw.v).value
          IN /\ "bankMonths" \notin DOMAIN sent.f
             /\ Get(sent, "subID3") =
                  (IF Get(form, "subID3").t # "undefined"
                   THEN Get(form, "subID3") ELSE Get(form, "bankMonths"))
             /\ \A k \in (DOMAIN form.f \cup DOMAIN sent.f) \ {"subID3", "bankMonths"} :
                  Get(sent, k) = Get(form, k)

\* the response the claim C3 gives for an upstream reply (s, b)
C3_Mapping(s, b) ==
    IF s = 200 /\ Get(b, "status") = Str(ACCEPTED)
    THEN NextResponseJson([status |-> Str(accepted), redirectUrl |-> Get(b, "redirectUrl"),
                           price |-> Get(b, "price")], 200)
    ELSE IF s = 200 /\ Get(b, "status") = Str(REJECTED)
    THEN NextResponseJson(
           [status |-> Str(rejected),
            message |-> IF Get(b, "message").t \in {"undefined", "null"}
                        THEN Str(rejected) ELSE Get(b, "message")], 200)
    ELSE NextResponseJson([status |-> Str(error), upstreamStatus |-> Num(s),
                           upstream |-> b], s)

\* C3: for every upstream reply (status s, parsed body b) to a forwarded
\* submission the response is accepted / rejected / error as the mapping
\* table says, case-sensitively on b.status.
C3_UpstreamReplyMapped ==
    (pc = "done" /\ PassesValidation /\ upstreamEnv.k = "reply" /\ upstreamEnv.text.json)
    => response = C3_Mapping(upstreamEnv.status, upstreamEnv.text.v)

\* C4: a submission that fails schema validation is answered with a
\* validation error and no outbound call is made for it; an outbound call
\* happens only after validation has succeeded.
C4_InvalidNeverForwarded ==
    /\ (pc = "done" /\ FailsValidation)
         => (StatusOf(response) = Str(validation_error) /\ outbound = <<>>)
    /\ outbound # <<>> => validated = "passed"

\* C8: an upstream body that is not JSON is wrapped as {raw: text} and
\* mapped as usual: HTTP s {status: "error", upstreamStatus: s,
\* upstream: {raw: text}}, never the generic 500.
C8_NonJsonUpstreamWrapped ==
    (pc = "done" /\ PassesValidation /\ upstreamEnv.k = "reply" /\ ~upstreamEnv.text.json)
    => response = NextResponseJson(
                    [status |-> Str(error),
                     upstreamStatus |-> Num(upstreamEnv.status),
                     upstream |-> Obj([raw |-> Str(upstreamEnv.text.raw)])],
                    upstreamEnv.status)

\* C9: a failure that is not a validation error (unreadable body, fetch
\* throws, reading the upstream body throws) yields HTTP 500 {status:
\* "error", message: "Unexpected server error"}; at most one outbound POST
\* is issued and every request ends with exactly one response.
C9_UnexpectedFailureIs500 ==
    /\ (/\ pc = "done"
        /\ \/ raw.k = "invalid_json"
           \/ PassesValidation /\ upstreamEnv.k \in {"fetch_throws", "text_throws"})
         => response = [http |-> 500,
                        body |-> Obj([status |-> Str(error),
                                      message |-> Str(UnexpectedServerError)])]
    /\ Len(outbound) <= 1
    /\ pc = "done" => nResponses = 1

\* C10: in the handler as captured with the unconditional return, every
\* request is answered, after the delay, with HTTP 200 {status:
\* "accepted", redirectUrl: "https://google.com"}; the body is never read,
\* validation never runs, nothing is sent upstream, and no response is
\* rejected, validation_error or error.
C10_AlwaysAcceptedStub ==
    /\ pc = "done"
         => /\ response = [http |-> 200,
                           body |-> Obj([status |-> Str(accepted),
                                         redirectUrl |-> Str(<<"h", "t", "t", "p", "s", ":", "/", "/", "g", "o", "o", "g", "l", "e", ".", "c", "o", "m">>)])]
            /\ delayMs >= DelayBaseMs /\ delayMs < DelayBaseMs + DelaySpanMs
            /\ nResponses = 1
    /\ pc # "done" => response = NoResponse
    /\ ~bodyRead
    /\ validated = "no"
    /\ outbound = <<>>
    /\ StatusOf(response) \notin {Str(rejected), Str(validation_error), Str(error)}

\* a body that is not JSON has been answered "accepted"
C10_Witness ==
    /\ pc = "done"
    /\ raw.k = "invalid_json"
    /\ response.http = 200
    /\ StatusOf(response) = Str(accepted)

\* no key of the form has a value of a wrong type
TypesCorrect ==
    IsForm /\ \A k \in DOMAIN Shape : CheckField(Shape[k], Get(raw.v, k)) # "aborted"

\* The statements after the return (BodySpec): a form without subID3 and
\* bankMonths is answered 422 validation_error, and the bankMonths issue
\* is reported when every key has a value of the right type (the
\* refinement does not run on an aborted parse).
Body_MissingBankMonths ==
    (/\ pc = "done"
     /\ IsForm
     /\ Get(raw.v, "subID3").t = "undefined"
     /\ Get(raw.v, "bankMonths").t = "undefined")
    => /\ response.http = 422
       /\ StatusOf(response) = Str(validation_error)
       /\ TypesCorrect => "bankMonths" \in Get(response.body, "errors").fieldErrors

-----------------------------------------------------------------------------
(***************************************************************************)
(* Properties of the token codec.                                          *)
(***************************************************************************)
\* C5: a token put out by the encrypt side for a destination u (the
\* compact JWE, base64-wrapped and embedded in the token parameter) is
\* decoded and decrypted by the redirect handler under the same key to
\* exactly u, and the handler redirects to exactly u.
C5_RoundTrip ==
    (gpc = "done" /\ greq.variant = "jwe" /\ greq.url = issued.url)
    => (decryptCalls = 1 /\ gresp = RedirectTo(issued.u))

\* a destination with a character outside ASCII has made the round trip
C5_Witness ==
    /\ gpc = "done"
    /\ greq.variant = "jwe"
    /\ greq.url = issued.url
    /\ gresp = RedirectTo(issued.u)
    /\ \E i \in 1..Len(issued.u) : issued.u[i] > 127

\* what decrypt does with the token of the request
DecryptOutcome ==
    IF greq.variant = "jwe"
    THEN decrypt(Utf8Decode(Base64Decode(token.v)), encKey)
    ELSE decryptIvCipher(token.v, encKey)

\* C6: when decryption of the supplied token fails, the request ends in
\* an error response and no redirect is produced; a redirect goes only to
\* the complete output of a successful decryption.
C6_FailClosed ==
    /\ (gpc = "done" /\ decryptCalls > 0 /\ ~DecryptOutcome.ok)
         => gresp = HandlerThrew
    /\ gresp.kind = "redirect"
         => (gpc = "done" /\ decryptCalls = 1 /\ DecryptOutcome.ok
             /\ gresp.location = DecryptOutcome.pt)

\* an altered token has been refused by the compact-JWE handler
C6_Witness ==
    /\ gpc = "done"
    /\ greq.variant = "jwe"
    /\ greq.url # issued.url
    /\ Len(greq.url) = Len(issued.url)
    /\ decryptCalls = 1
    /\ gresp = HandlerThrew

\* C7: a GET whose URL has no token parameter is answered with exactly
\* HTTP 400 {"error": "Missing token"}; decrypt is not called and no
\* redirect is issued; in both redirect handlers.
C7_MissingToken ==
    greq.url \in NoTokenUrls
    => /\ decryptCalls = 0
       /\ gresp \in {NoGResp, MissingToken}
       /\ gpc = "done" => gresp = MissingToken /\ token.isNull

\* the iv:ciphertext handler has answered a URL that has another
\* parameter only
C7_Witness ==
    /\ gpc = "done"
    /\ greq.variant = "ivcipher"
    /\ greq.url \in NoTokenUrls
    /\ UrlQuery(greq.url) # <<>>
    /\ gresp = MissingToken

=============================================================================
